---- MODULE Spec2Model ----
(***************************************************************************)
(* Floor-plan point store (store.ts), canvas marker synchronisation        *)
(* (canvas.ts) and the DOM handlers of main.ts / ui.ts, as a state machine.*)
(*                                                                         *)
(* JavaScript numbers are modelled as integers plus three distinguished    *)
(* values NaN, Null and Undefined; comparisons, truthiness, `||`, `===`,   *)
(* Array.prototype.sort, JSON.stringify/parse, String() and parseInt are   *)
(* modelled by what they do on those values.                               *)
(***************************************************************************)
EXTENDS Integers, Sequences, FiniteSets, TLC

VARIABLES
  points,           \* Store.points: sequence of PointData records
  selectedPointId,  \* Store.state.selectedPointId (NoId for null)
  mode,             \* Store.state.mode
  circleSize,       \* Store.state.circleSize
  storage,          \* localStorage entry STORAGE_KEY
  pointShapes,      \* CanvasManager.pointShapes: id -> marker visual state
  nextRow,          \* value of the DOM input #nextRow (a text)
  phase,            \* position of main.ts init(): "loading" | "ready"
  now,              \* last value returned by Date.now()
  lastSelect,       \* history: argument of the latest selectPoint call
  scale,            \* Store.state.scale (a rational)
  offsetX,          \* Store.state.offsetX (a rational)
  offsetY,          \* Store.state.offsetY (a rational)
  dragging,         \* Store.state.isDragging, dragStartX, dragStartY
  container,        \* container.clientWidth, container.clientHeight
  layers,           \* position and scale of imageLayer and of pointsLayer
  zooms,            \* number of zoom gestures made so far
  backgroundImage,  \* CanvasManager.backgroundImage: <<width, height>>, <<>> when none
  imageChildren,    \* the Konva.Image nodes of imageLayer, in the order added
  imageBase64,      \* Store.imageBase64 ("null" when none)
  excelData,        \* Store.excelData: its number of rows
  pending,          \* image loads requested and not completed yet
  listeners,        \* Store.listeners
  seen,             \* per listener, the store snapshots the last call showed it
  toast             \* the last toast shown: "none", "info", "error", or
                    \* "exported" for the success toast of exportData

viewVars == <<scale, offsetX, offsetY, dragging, container, layers, zooms>>

imageVars == <<backgroundImage, imageChildren, imageBase64, pending>>

vars == <<points, selectedPointId, mode, circleSize, storage,
          pointShapes, nextRow, phase, now, lastSelect,
          viewVars, imageVars, excelData, listeners, seen, toast>>

canvasVars == <<pointShapes, nextRow, phase, lastSelect>>

----------------------------------------------------------------------------
(* Bounds of the exploration *)

\* The row ceiling: the source uses 215 (store.ts 123,126,190; canvas.ts 234);
\* the model explores a small ceiling so that a full store is reachable.
MaxRow == 3
\* Longest import list, and longest point list the handlers are driven to.
MaxLen == 2
\* Largest clock value Date.now() returns.
MaxNow == 1

----------------------------------------------------------------------------
(* JavaScript values *)

NaN == -1000
Null == -2000
Undefined == -3000

NoId == <<>>

\* An empty Map.
EmptyMap == [k \in {} |-> 0]

\* ToNumber on the modelled values.
ToNumber(v) == IF v = Null THEN 0 ELSE IF v = Undefined THEN NaN ELSE v

\* a >= b and a <= b: false as soon as one side converts to NaN.
JsGe(a, b) == ToNumber(a) # NaN /\ ToNumber(b) # NaN /\ ToNumber(a) >= ToNumber(b)
JsLe(a, b) == ToNumber(a) # NaN /\ ToNumber(b) # NaN /\ ToNumber(a) =< ToNumber(b)
JsLt(a, b) == ToNumber(a) # NaN /\ ToNumber(b) # NaN /\ ToNumber(a) < ToNumber(b)
JsGt(a, b) == ToNumber(a) # NaN /\ ToNumber(b) # NaN /\ ToNumber(a) > ToNumber(b)

\* a === b: NaN is not equal to itself.
StrictEq(a, b) == a # NaN /\ b # NaN /\ a = b

\* Truthiness and a || b.
Truthy(v) == v \notin {0, NaN, Null, Undefined}
JsOr(a, b) == IF Truthy(a) THEN a ELSE b

\* a - b
JsMinus(a, b) ==
  IF ToNumber(a) = NaN \/ ToNumber(b) = NaN THEN NaN ELSE ToNumber(a) - ToNumber(b)

Range(s) == {s[i] : i \in DOMAIN s}

----------------------------------------------------------------------------
(* JavaScript arithmetic on the viewport: exact fractions <<n, d>>, d > 0 *)

Abs(n) == IF n < 0 THEN 0 - n ELSE n

RECURSIVE Gcd(_, _)
Gcd(a, b) == IF b = 0 THEN a ELSE Gcd(b, a % b)

\* The fraction n / d in lowest terms, d # 0.
Frac(n, d) ==
  LET g == Gcd(Abs(n), Abs(d))
      sgn == IF d < 0 THEN 0 - 1 ELSE 1
  IN <<(sgn * n) \div g, (sgn * d) \div g>>

Rat(n) == <<n, 1>>

\* Common factors are divided out before two numbers are multiplied.
RAdd(a, b) ==
  LET g == Gcd(a[2], b[2])
  IN  Frac(a[1] * (b[2] \div g) + b[1] * (a[2] \div g), (a[2] \div g) * b[2])
RNeg(a) == <<0 - a[1], a[2]>>
RSub(a, b) == RAdd(a, RNeg(b))
RMul(a, b) ==
  LET g1 == Gcd(Abs(a[1]), b[2])
      g2 == Gcd(Abs(b[1]), a[2])
  IN  Frac((a[1] \div g1) * (b[1] \div g2), (a[2] \div g2) * (b[2] \div g1))
\* 1 / b, b # 0
RInv(b) == IF b[1] < 0 THEN <<0 - b[2], 0 - b[1]>> ELSE <<b[2], b[1]>>
\* a / b, b # 0
RDiv(a, b) == RMul(a, RInv(b))
RLe(a, b) ==
  LET g == Gcd(a[2], b[2])
  IN  a[1] * (b[2] \div g) =< b[1] * (a[2] \div g)

\* Math.min, Math.max
RMin(a, b) == IF RLe(a, b) THEN a ELSE b
RMax(a, b) == IF RLe(a, b) THEN b ELSE a

\* Math.round: the nearest integer, halves towards +Infinity.
RRound(a) ==
  LET q == a[1] \div a[2]
      r == a[1] - q * a[2]
  IN  IF r >= a[2] - r THEN q + 1 ELSE q

----------------------------------------------------------------------------
(* Array.prototype.sort((a, b) => a.rowNum - b.rowNum) *)

\* SortCompare: the comparator's result, NaN read as +0.
SortCompare(a, b) ==
  LET v == JsMinus(a.rowNum, b.rowNum) IN IF v = NaN THEN 0 ELSE v

\* ECMAScript's "consistent comparison function" for the elements of s.
ConsistentComparator(s) ==
  \A a \in Range(s), b \in Range(s), c \in Range(s) :
     /\ (SortCompare(a, b) = 0 /\ SortCompare(b, c) = 0) => SortCompare(a, c) = 0
     /\ (SortCompare(a, b) < 0 /\ SortCompare(b, c) < 0) => SortCompare(a, c) < 0
     /\ (SortCompare(a, b) > 0 /\ SortCompare(b, c) > 0) => SortCompare(a, c) > 0
     /\ (SortCompare(a, b) < 0) <=> (SortCompare(b, a) > 0)

RECURSIVE InsertSorted(_, _)
\* Insert e after every element that does not compare greater (stable).
InsertSorted(s, e) ==
  IF s = <<>> THEN <<e>>
  ELSE IF SortCompare(Head(s), e) > 0 THEN <<e>> \o s
  ELSE <<Head(s)>> \o InsertSorted(Tail(s), e)

RECURSIVE StableSort(_)
StableSort(s) ==
  IF s = <<>> THEN <<>>
  ELSE InsertSorted(StableSort(SubSeq(s, 1, Len(s) - 1)), s[Len(s)])

Reorderings(s) ==
  {[i \in 1..Len(s) |-> s[f[i]]] : f \in Permutations(1..Len(s))}

\* The arrays sort may leave: the stable ascending order when the comparator
\* is consistent, otherwise an implementation-defined order of the elements.
SortOutcomes(s) ==
  IF ConsistentComparator(s) THEN {StableSort(s)} ELSE Reorderings(s)

----------------------------------------------------------------------------
(* localStorage and JSON *)

\* JSON.stringify then JSON.parse of a number: NaN is written as null.
JsonNumber(v) == IF v = NaN THEN Null ELSE v

JsonPoint(p) ==
  [id |-> p.id, x |-> JsonNumber(p.x), y |-> JsonNumber(p.y),
   size |-> JsonNumber(p.size), rowNum |-> JsonNumber(p.rowNum)]

\* JSON.parse(JSON.stringify(pts))
JsonRoundTrip(pts) == [i \in 1..Len(pts) |-> JsonPoint(pts[i])]

NoStorage == [present |-> FALSE, pts |-> <<>>]

\* Store.saveToLocal: setItem either succeeds or throws (caught, logged).
saveToLocal(pts, ok, old) ==
  IF ok THEN [present |-> TRUE, pts |-> JsonRoundTrip(pts)] ELSE old

\* Store.loadFromLocal: the new point list.
loadFromLocal(st, pts) == IF st.present THEN st.pts ELSE pts

----------------------------------------------------------------------------
(* Store: points management *)

hasRowNum(pts, rowNum) == \E i \in DOMAIN pts : StrictEq(pts[i].rowNum, rowNum)

\* Store.addPoint: the point lists it may leave.
addPoint(pts, point) ==
  IF hasRowNum(pts, point.rowNum) THEN {pts} ELSE SortOutcomes(Append(pts, point))

\* findIndex(p => p.id === id): 0 for -1.
findIndex(pts, id) ==
  IF \E i \in DOMAIN pts : pts[i].id = id
  THEN CHOOSE i \in DOMAIN pts : pts[i].id = id /\ \A j \in 1..(i - 1) : pts[j].id # id
  ELSE 0

splice(pts, index) == SubSeq(pts, 1, index - 1) \o SubSeq(pts, index + 1, Len(pts))

\* A removePoint that splices at the index findIndex gave without testing
\* it: splice(-1, 1) takes the last point away.
spliceUntested(pts, id) ==
  IF findIndex(pts, id) = 0 THEN SubSeq(pts, 1, Len(pts) - 1)
  ELSE splice(pts, findIndex(pts, id))

\* Store.removePoint: what it returns, the removed point in a sequence of
\* its own, the empty sequence for undefined.
removedPoint(pts, id) ==
  IF findIndex(pts, id) = 0 THEN <<>> ELSE <<pts[findIndex(pts, id)]>>

\* Store.removePoint: the new point list.
removePoint(pts, id) ==
  IF findIndex(pts, id) = 0 THEN pts ELSE splice(pts, findIndex(pts, id))

\* A removePoint that never touches the selection.
selectionKeptOnRemove(pts, sel, id) == sel

\* Store.removePoint: the new selectedPointId.
selectionAfterRemove(pts, sel, id) ==
  IF findIndex(pts, id) # 0 /\ sel = id THEN NoId ELSE sel

\* History of the selections: the point last selected has been removed.
noteRemoved(pts, id) ==
  IF findIndex(pts, id) # 0 /\ lastSelect.id = id
  THEN [lastSelect EXCEPT !.removed = TRUE] ELSE lastSelect

RECURSIVE firstFree(_, _)
firstFree(rows, i) ==
  IF i > MaxRow THEN MaxRow
  ELSE IF i \notin rows THEN i
  ELSE firstFree(rows, i + 1)

\* A next row that counts the points instead of looking for the first gap.
nextRowIgnoringGaps(pts) ==
  IF Len(pts) + 1 > MaxRow THEN MaxRow ELSE Len(pts) + 1

\* Store.getNextAvailableRow
getNextAvailableRow(pts) == firstFree({pts[i].rowNum : i \in DOMAIN pts}, 1)

RECURSIVE importUnfiltered(_, _, _, _)
\* An import that keeps the items outside the row range too.
importUnfiltered(data, i, t, rnd) ==
  IF i > Len(data) THEN <<>>
  ELSE <<[id |-> <<data[i].rowNum, t, rnd[i]>>,
          x |-> data[i].x, y |-> data[i].y,
          size |-> JsOr(data[i].size, 24),
          rowNum |-> data[i].rowNum]>>
       \o importUnfiltered(data, i + 1, t, rnd)

RECURSIVE importFrom(_, _, _, _)
\* The forEach of Store.importPoints from item i on: items outside the row
\* range are skipped, the others get a generated id and a default size.
importFrom(data, i, t, rnd) ==
  IF i > Len(data) THEN <<>>
  ELSE (IF JsGe(data[i].rowNum, 1) /\ JsLe(data[i].rowNum, MaxRow)
        THEN <<[id |-> <<data[i].rowNum, t, rnd[i]>>,
                x |-> data[i].x, y |-> data[i].y,
                size |-> JsOr(data[i].size, 24),
                rowNum |-> data[i].rowNum]>>
        ELSE <<>>)
       \o importFrom(data, i + 1, t, rnd)

\* Store.importPoints: the point lists it may leave.
importPoints(data, t, rnd) == SortOutcomes(importFrom(data, 1, t, rnd))

----------------------------------------------------------------------------
(* Store: subscription and notification *)

\* What a listener reads from the store when it is called.
Snap ==
  [points |-> points, selectedPointId |-> selectedPointId, mode |-> mode,
   circleSize |-> circleSize, scale |-> scale, offsetX |-> offsetX,
   offsetY |-> offsetY, dragging |-> dragging, imageBase64 |-> imageBase64,
   excelData |-> excelData,
   storage |-> storage]

\* The snapshot a listener reads: notify() is the last statement of every
\* store call that has one, so it reads the state the call leaves.
atNotify(after) == after

\* Store.notify: every subscribed listener is called once.
Notify == seen' = [l \in listeners |-> <<atNotify(Snap')>>]

\* A store call, or a handler, that calls no listener.
Quiet == seen' = [l \in listeners |-> <<>>]

\* backgroundImage: Konva.Image | null = null, as <<width, height>> or <<>>
NoImage == <<>>

\* imageBase64: string | null = null
NoBlob == "null"

\* state.isDragging = false, dragStartX = dragStartY = 0
NotDragging == [isDragging |-> FALSE, dragStartX |-> Rat(0), dragStartY |-> Rat(0)]

\* container.clientWidth and clientHeight of the page.
Containers == {<<200, 200>>}

\* What the store-side and canvas-side operations on points leave alone.
frameVars == <<viewVars, imageVars, excelData, listeners>>

\* A Konva.Layer as constructed: at the origin, at scale 1.
NewLayer == [x |-> Rat(0), y |-> Rat(0), scale |-> Rat(1)]

\* The two layers of a new CanvasManager.
NewLayers == [imageLayer |-> NewLayer, pointsLayer |-> NewLayer]

\* An updateTransform that leaves the layers as they were constructed.
transformSkipped(sc, x, y) == NewLayers

\* CanvasManager.updateTransform: both layers take the store's offset and
\* scale.
updateTransform(sc, x, y) ==
  [imageLayer |-> [x |-> x, y |-> y, scale |-> sc],
   pointsLayer |-> [x |-> x, y |-> y, scale |-> sc]]

\* imageLayer.getAbsoluteTransform().copy().invert().point(pos): the stage
\* position pos in the coordinates of the layer.
invertPoint(layer, pos) ==
  <<RDiv(RSub(Rat(pos[1]), layer.x), layer.scale),
    RDiv(RSub(Rat(pos[2]), layer.y), layer.scale)>>

----------------------------------------------------------------------------
(* Initial state: a first session, nothing persisted yet *)

Init ==
  /\ points = <<>>
  /\ selectedPointId = NoId
  /\ mode = "draw"
  /\ circleSize = 24
  /\ storage = NoStorage
  /\ pointShapes = EmptyMap
  /\ nextRow = ""
  /\ phase = "loading"
  /\ now = 0
  /\ lastSelect = [id |-> NoId, removed |-> FALSE]
  /\ scale = Rat(1)
  /\ offsetX = Rat(0)
  /\ offsetY = Rat(0)
  /\ dragging = NotDragging
  /\ container \in Containers
  /\ layers = NewLayers
  /\ zooms = 0
  /\ backgroundImage = NoImage
  /\ imageChildren = <<>>
  /\ imageBase64 = NoBlob
  /\ excelData = 0
  /\ pending = {}
  /\ listeners = {}
  /\ seen = EmptyMap
  /\ toast = "none"

----------------------------------------------------------------------------
(* Store operations called directly *)

\* Rows handed to the store: below, inside and above the range, and NaN.
RowInputs == (0..(MaxRow + 1)) \cup {NaN}

\* Points a caller hands to Store.addPoint.
StorePoint(r) == [id |-> <<r, 0>>, x |-> 100, y |-> 50, size |-> 24, rowNum |-> r]

idsOf(pts) == {pts[i].id : i \in DOMAIN pts}

AddPoint(point, ok) ==
  /\ \E q \in addPoint(points, point) :
       /\ points' = q
       /\ storage' = IF hasRowNum(points, point.rowNum) THEN storage
                     ELSE saveToLocal(q, ok, storage)
  /\ UNCHANGED <<selectedPointId, mode, circleSize, now>>
  /\ UNCHANGED canvasVars
  /\ UNCHANGED <<frameVars, toast>>
  /\ IF hasRowNum(points, point.rowNum) THEN UNCHANGED seen ELSE Notify

RemovePoint(id, ok) ==
  /\ points' = removePoint(points, id)
  /\ selectedPointId' = selectionAfterRemove(points, selectedPointId, id)
  /\ storage' = IF findIndex(points, id) = 0 THEN storage
                ELSE saveToLocal(points', ok, storage)
  /\ lastSelect' = noteRemoved(points, id)
  /\ UNCHANGED <<mode, circleSize, now, pointShapes, nextRow, phase>>
  /\ UNCHANGED <<frameVars, toast>>
  /\ IF findIndex(points, id) = 0 THEN UNCHANGED seen ELSE Notify

ClearAllPoints(ok) ==
  /\ points' = <<>>
  /\ selectedPointId' = NoId
  /\ storage' = saveToLocal(<<>>, ok, storage)
  /\ UNCHANGED <<mode, circleSize, now>>
  /\ UNCHANGED canvasVars
  /\ UNCHANGED <<frameVars, toast>>
  /\ Notify

ImportPoints(data, t, rnd, ok) ==
  /\ now' = t
  /\ UNCHANGED <<selectedPointId, mode, circleSize>>
  /\ UNCHANGED canvasVars
  /\ UNCHANGED <<frameVars, toast>>
  /\ \E q \in importPoints(data, t, rnd) :
       /\ points' = q
       /\ storage' = saveToLocal(q, ok, storage)
  /\ Notify

LoadFromLocal ==
  /\ points' = loadFromLocal(storage, points)
  /\ UNCHANGED <<selectedPointId, mode, circleSize, storage, now>>
  /\ UNCHANGED canvasVars
  /\ UNCHANGED <<frameVars, toast>>
  /\ IF storage.present THEN Notify ELSE UNCHANGED seen

SetSelectedPointId(id) ==
  /\ selectedPointId' = id
  /\ lastSelect' = IF id = NoId THEN lastSelect ELSE [id |-> id, removed |-> FALSE]
  /\ UNCHANGED <<points, mode, circleSize, storage, now, pointShapes, nextRow, phase>>
  /\ UNCHANGED <<frameVars, toast>>
  /\ Notify

\* A new page load constructs a new Store; localStorage outlives it.
NewStore ==
  /\ points' = <<>>
  /\ selectedPointId' = NoId
  /\ mode' = "draw"
  /\ circleSize' = 24
  /\ scale' = Rat(1)
  /\ offsetX' = Rat(0)
  /\ offsetY' = Rat(0)
  /\ dragging' = NotDragging
  /\ imageBase64' = NoBlob
  /\ excelData' = 0
  /\ listeners' = {}
  /\ seen' = EmptyMap
  /\ UNCHANGED <<storage, now, container, layers, zooms, backgroundImage, imageChildren,
                 pending, toast>>
  /\ UNCHANGED canvasVars

----------------------------------------------------------------------------
(* The #nextRow input: String(n) and parseInt(text, 10) *)

Digits == <<"0", "1", "2", "3", "4", "5", "6", "7", "8", "9">>

\* String(n) for the one-digit rows of the model.
Str(n) == Digits[n + 1]

\* What a user may leave in the input: nothing, a non-numeric text, a row
\* below, inside or above the range.
Texts == {"", "abc"} \cup {Str(n) : n \in 0..(MaxRow + 1)}

\* parseInt(text, 10)
parseInt(text) ==
  IF \E n \in 0..9 : Digits[n + 1] = text
  THEN CHOOSE n \in 0..9 : Digits[n + 1] = text
  ELSE NaN

\* CanvasManager.getNextRowInput: parseInt(input.value || '1', 10)
getNextRowInput(text) == parseInt(IF text = "" THEN "1" ELSE text)

\* CanvasManager.updateNextRowInput and ui.ts updateNextRowInput
updateNextRowInput(pts) == Str(getNextAvailableRow(pts))

----------------------------------------------------------------------------
(* Canvas markers *)

MapSet(m, k, v) == [j \in DOMAIN m \cup {k} |-> IF j = k THEN v ELSE m[j]]

MapDelete(m, k) == [j \in DOMAIN m \ {k} |-> m[j]]

\* The Konva group createPointShape builds: default stroke and fill, no shadow.
NewMarker ==
  [stroke |-> "#e94560", shadowEnabled |-> FALSE, fill |-> "0.7", hover |-> FALSE,
   radius |-> Rat(0)]

\* A radius that ignores the scale.
radiusAtScaleOne(size, sc) == RDiv(Rat(size), Rat(2))

\* visualSize / 2, with visualSize = point.size / state.scale
circleRadius(size, sc) == RDiv(RDiv(Rat(size), sc), Rat(2))

\* CanvasManager.createPointShape: pointShapes.set(point.id, group)
createPointShape(shapes, point) ==
  MapSet(shapes, point.id, [NewMarker EXCEPT !.radius = circleRadius(point.size, scale)])

RECURSIVE renderFrom(_, _, _)
renderFrom(shapes, pts, i) ==
  IF i > Len(pts) THEN shapes
  ELSE renderFrom(createPointShape(shapes, pts[i]), pts, i + 1)

\* CanvasManager.renderAllPoints: destroy every marker, recreate one per point.
renderAllPoints(pts) == renderFrom(EmptyMap, pts, 1)

\* CanvasManager.selectPoint, "Deselect previous"
deselectPrevious(shapes, prevId) ==
  IF prevId # NoId /\ prevId \in DOMAIN shapes
  THEN [shapes EXCEPT ![prevId].stroke = "#e94560", ![prevId].shadowEnabled = FALSE]
  ELSE shapes

\* CanvasManager.selectPoint, "Select new"
selectNew(shapes, id) ==
  IF id \in DOMAIN shapes
  THEN [shapes EXCEPT ![id].stroke = "#00ff88", ![id].shadowEnabled = TRUE]
  ELSE shapes

\* CanvasManager.removePointById: the marker map after store.removePoint.
markersAfterRemove(shapes, pts, id) ==
  IF findIndex(pts, id) # 0 /\ id \in DOMAIN shapes THEN MapDelete(shapes, id)
  ELSE shapes

----------------------------------------------------------------------------
(* Event handlers of canvas.ts and main.ts *)

\* stage 'click' on the stage or the background image, then
\* CanvasManager.addPointAtPosition. Registered by the CanvasManager
\* constructor, so it runs in either phase.
StageClick(pos, t, ok) ==
  LET nr == getNextRowInput(nextRow)
      imagePos == invertPoint(layers.imageLayer, pos)
      point == [id |-> <<nr, t>>, x |-> RRound(imagePos[1]), y |-> RRound(imagePos[2]),
                size |-> circleSize, rowNum |-> nr]
  IN IF mode # "draw"
     THEN UNCHANGED vars
     ELSE IF JsLt(nr, 1) \/ JsGt(nr, MaxRow) \/ hasRowNum(points, nr)
     THEN /\ toast' = "error"
          /\ UNCHANGED <<points, selectedPointId, mode, circleSize, storage,
                         pointShapes, nextRow, phase, now, lastSelect,
                         frameVars, seen>>
     ELSE /\ \E q \in addPoint(points, point) :
               /\ points' = q
               /\ storage' = saveToLocal(q, ok, storage)
               /\ nextRow' = updateNextRowInput(q)
          /\ pointShapes' = createPointShape(pointShapes, point)
          /\ now' = t
          /\ toast' = "info"
          /\ UNCHANGED <<selectedPointId, mode, circleSize, phase, lastSelect,
                         frameVars>>
          /\ Notify

\* A selectPoint that restyles the markers and leaves the store's selection.
selectOnlyMarker(id) ==
  /\ pointShapes' = selectNew(deselectPrevious(pointShapes, selectedPointId), id)
  /\ lastSelect' = [id |-> id, removed |-> FALSE]
  /\ UNCHANGED <<points, selectedPointId, mode, circleSize, storage, nextRow,
                 phase, now, frameVars, toast, seen>>

\* CanvasManager.selectPoint
selectPoint(id) ==
  /\ selectedPointId' = id
  /\ pointShapes' = selectNew(deselectPrevious(pointShapes, selectedPointId), id)
  /\ lastSelect' = [id |-> id, removed |-> FALSE]
  /\ UNCHANGED <<points, mode, circleSize, storage, nextRow, phase, now,
                 frameVars, toast>>
  /\ Notify

\* marker 'click'
MarkerClick(id) == selectPoint(id)

\* #pointList click on an item (listener added by setupEventListeners)
ListClick(id) == phase = "ready" /\ selectPoint(id)

\* CanvasManager.removePointById
removePointById(id, ok) ==
  /\ points' = removePoint(points, id)
  /\ selectedPointId' = selectionAfterRemove(points, selectedPointId, id)
  /\ storage' = IF findIndex(points, id) = 0 THEN storage
                ELSE saveToLocal(points', ok, storage)
  /\ pointShapes' = markersAfterRemove(pointShapes, points, id)
  /\ lastSelect' = noteRemoved(points, id)
  /\ toast' = IF findIndex(points, id) = 0 THEN toast ELSE "info"
  /\ UNCHANGED <<mode, circleSize, phase, now, frameVars>>
  /\ IF findIndex(points, id) = 0 THEN UNCHANGED seen ELSE Notify

\* marker 'contextmenu'
MarkerContextMenu(id, ok) == removePointById(id, ok) /\ UNCHANGED nextRow

\* #pointList click on a delete button
ListDelete(id, ok) ==
  /\ phase = "ready"
  /\ removePointById(id, ok)
  /\ nextRow' = updateNextRowInput(points')

\* keydown Delete / Backspace
KeyDelete(ok) ==
  /\ phase = "ready"
  /\ IF selectedPointId # NoId
     THEN removePointById(selectedPointId, ok) /\ nextRow' = updateNextRowInput(points')
     ELSE UNCHANGED vars

\* keydown Escape
KeyEscape ==
  /\ phase = "ready"
  /\ selectedPointId' = NoId
  /\ UNCHANGED <<points, mode, circleSize, storage, pointShapes, nextRow, phase,
                 now, lastSelect, frameVars, toast>>
  /\ Notify

\* marker 'mouseenter': one marker is under the pointer at a time.
MouseEnter(id) ==
  /\ \A k \in DOMAIN pointShapes : ~pointShapes[k].hover
  /\ pointShapes' = [pointShapes EXCEPT ![id].fill = "1", ![id].hover = TRUE]
  /\ UNCHANGED <<points, selectedPointId, mode, circleSize, storage, nextRow,
                 phase, now, lastSelect, frameVars, toast, seen>>

\* marker 'mouseleave'
MouseLeave(id) ==
  /\ pointShapes[id].hover
  /\ pointShapes' =
       IF selectedPointId # id
       THEN [pointShapes EXCEPT ![id].fill = "0.7", ![id].stroke = "#e94560",
                                ![id].hover = FALSE]
       ELSE [pointShapes EXCEPT ![id].hover = FALSE]
  /\ UNCHANGED <<points, selectedPointId, mode, circleSize, storage, nextRow,
                 phase, now, lastSelect, frameVars, toast, seen>>

\* #clearAll click; the user answers the confirm dialog.
ClearAllButton(confirmed, ok) ==
  /\ phase = "ready"
  /\ IF Len(points) = 0
     THEN /\ toast' = "info"
          /\ UNCHANGED <<points, selectedPointId, mode, circleSize, storage,
                         pointShapes, nextRow, phase, now, lastSelect,
                         frameVars, seen>>
     ELSE IF ~confirmed
     THEN UNCHANGED vars
     ELSE /\ pointShapes' = EmptyMap
          /\ points' = <<>>
          /\ selectedPointId' = NoId
          /\ storage' = saveToLocal(<<>>, ok, storage)
          /\ nextRow' = updateNextRowInput(<<>>)
          /\ toast' = "info"
          /\ UNCHANGED <<mode, circleSize, phase, now, lastSelect, frameVars>>
          /\ Notify

\* handleJSONImport, "Convert row property if needed"
normalize(item) ==
  [rowNum |-> JsOr(item.rowNum, item.row), x |-> item.x, y |-> item.y,
   size |-> item.size]

normalizedData(data) == [i \in 1..Len(data) |-> normalize(data[i])]

\* handleJSONImport's reader.onload on a JSON array, the user confirming.
JSONImport(data, t, rnd, ok) ==
  /\ phase = "ready"
  /\ \E q \in importPoints(normalizedData(data), t, rnd) :
       /\ points' = q
       /\ storage' = saveToLocal(q, ok, storage)
       /\ pointShapes' = renderAllPoints(q)
       /\ nextRow' = updateNextRowInput(q)
  /\ now' = t
  /\ toast' = "info"
  /\ UNCHANGED <<selectedPointId, mode, circleSize, phase, lastSelect, frameVars>>
  /\ Notify

\* The user edits the #nextRow input.
TypeNextRow(text) ==
  /\ nextRow' = text
  /\ UNCHANGED <<points, selectedPointId, mode, circleSize, storage, pointShapes,
                 phase, now, lastSelect, frameVars, toast, seen>>

\* CanvasManager.setMode from the mode buttons and the d / p keys.
SetMode(m) ==
  /\ phase = "ready"
  /\ mode' = m
  /\ UNCHANGED <<points, selectedPointId, circleSize, storage, pointShapes,
                 nextRow, phase, now, lastSelect, frameVars, toast>>
  /\ Notify

\* The rest of init() once its awaits are over: loadPlateData has handed the
\* plate rows to store.setExcelData, floor1.jpg was not found (error toast),
\* then loadSavedPoints (its toast when points were restored),
\* setupEventListeners, store.subscribe, updateNextRowInput.
InitComplete ==
  /\ phase = "loading"
  /\ phase' = "ready"
  /\ points' = loadFromLocal(storage, points)
  /\ pointShapes' = IF storage.present /\ Len(storage.pts) > 0
                    THEN renderAllPoints(points') ELSE pointShapes
  /\ nextRow' = updateNextRowInput(points')
  /\ toast' = IF storage.present /\ Len(storage.pts) > 0 THEN "info" ELSE "error"
  /\ listeners' = listeners \cup {"ui"}
  /\ seen' = [l \in listeners' |-> <<>>]
  /\ UNCHANGED <<selectedPointId, mode, circleSize, storage, now, lastSelect,
                 viewVars, imageVars>>
  /\ excelData' = MaxRow

\* The page is loaded again: new Store, new CanvasManager, init() up to its
\* first await. localStorage and the clock go on.
Reload ==
  /\ phase = "ready"
  /\ points' = <<>>
  /\ selectedPointId' = NoId
  /\ mode' = "draw"
  /\ circleSize' = 24
  /\ pointShapes' = EmptyMap
  /\ nextRow' = ""
  /\ phase' = "loading"
  /\ lastSelect' = [id |-> NoId, removed |-> FALSE]
  /\ scale' = Rat(1)
  /\ offsetX' = Rat(0)
  /\ offsetY' = Rat(0)
  /\ dragging' = NotDragging
  /\ backgroundImage' = NoImage
  /\ imageChildren' = <<>>
  /\ imageBase64' = NoBlob
  /\ excelData' = 0
  /\ pending' = {}
  /\ listeners' = {}
  /\ seen' = EmptyMap
  /\ toast' = "none"
  /\ layers' = NewLayers
  /\ UNCHANGED <<storage, now, container, zooms>>

----------------------------------------------------------------------------
(* Inputs of an import *)

\* Items as Store.importPoints receives them: rows below, inside and above
\* the range, size present or absent.
ImportItems(rows, sizes) == [rowNum : rows, x : {100}, y : {50}, size : sizes]

\* The import files tried: no item, one item, two items.
ImportLists(rows, sizes) ==
  {<<>>} \cup {<<a>> : a \in ImportItems(rows, sizes)}
         \cup {<<a, b>> : a \in ImportItems(rows, sizes), b \in ImportItems(rows, sizes)}

ImportRows == {1, 2, MaxRow + 1}

\* Math.random().toString(36).substr(2, 9), one draw per item.
Rnds == {1, 2}

\* The draws of one import of n items: nine base-36 digits each, taken
\* pairwise different.
Draws(n) == {f \in [1..n -> Rnds] : \A i \in 1..n, j \in 1..n : i # j => f[i] # f[j]}

StoreImportLists == ImportLists(ImportRows, {Undefined})

RowsImportLists == ImportLists({1, 2}, {Undefined})

----------------------------------------------------------------------------
(* Specifications *)

\* Only Store.addPoint, from the empty store.
NextAdd ==
  \E r \in RowInputs : Len(points) =< MaxLen /\ AddPoint(StorePoint(r), TRUE)

SpecAdd == Init /\ [][NextAdd]_vars

\* The store's operations on the point list and the selection, in any order.
NextStore ==
  \/ \E data \in StoreImportLists :
       \E rnd \in Draws(Len(data)) : ImportPoints(data, now, rnd, TRUE)
  \/ \E r \in RowInputs : Len(points) < MaxLen /\ AddPoint(StorePoint(r), TRUE)
  \/ \E id \in idsOf(points) \cup {<<1, 0>>} : RemovePoint(id, TRUE)
  \/ ClearAllPoints(TRUE)
  \/ LoadFromLocal
  \/ \E id \in idsOf(points) \cup {NoId} : SetSelectedPointId(id)
  \/ NewStore

SpecStore == Init /\ [][NextStore]_vars

\* The operations that change which rows are in use, up to a full store.
NextRows ==
  \/ \E r \in RowInputs : Len(points) < MaxRow /\ AddPoint(StorePoint(r), TRUE)
  \/ \E id \in idsOf(points) : RemovePoint(id, TRUE)
  \/ ClearAllPoints(TRUE)
  \/ \E data \in RowsImportLists :
       ImportPoints(data, now, [i \in 1..Len(data) |-> i], TRUE)

SpecRows == Init /\ [][NextRows]_vars

\* Where a click lands, in image coordinates.
ClickPositions == {<<100, 50>>}

\* Items of an import file as handleJSONImport parses it: rowNum, or the
\* legacy alias row.
FileItem(r) == [rowNum |-> r, row |-> Undefined, x |-> 100, y |-> 50, size |-> Undefined]

AliasItem(r) == [rowNum |-> Undefined, row |-> r, x |-> 100, y |-> 50, size |-> 16]

\* The import files tried: empty, one row, two rows out of order (one by its
\* alias), a repeated row, a row above the range.
FileLists ==
  {<<>>, <<FileItem(1)>>, <<AliasItem(2), FileItem(1)>>,
   <<FileItem(1), FileItem(1)>>, <<FileItem(MaxRow + 1), FileItem(2)>>}

\* The handlers a user drives: placement at the suggested row or after a
\* non-numeric text was typed, selection, removal.
NextSelect ==
  \/ \E pos \in ClickPositions, t \in now..MaxNow :
       Len(points) < MaxLen /\ StageClick(pos, t, TRUE)
  \/ \E text \in {"abc"} : TypeNextRow(text)
  \/ \E id \in DOMAIN pointShapes : MarkerClick(id)
  \/ \E id \in idsOf(points) : ListClick(id)
  \/ \E id \in DOMAIN pointShapes : MarkerContextMenu(id, TRUE)
  \/ \E id \in idsOf(points) : ListDelete(id, TRUE)
  \/ KeyDelete(TRUE)
  \/ InitComplete

SpecSelect == Init /\ [][NextSelect]_vars

\* Placement: what is typed in #nextRow, the mode, clicks and right-clicks.
NextPlace ==
  \/ \E pos \in ClickPositions, t \in now..MaxNow :
       Len(points) < MaxLen /\ StageClick(pos, t, TRUE)
  \/ \E text \in Texts : TypeNextRow(text)
  \/ \E m \in {"draw", "pan"} : SetMode(m)
  \/ \E id \in DOMAIN pointShapes : MarkerContextMenu(id, TRUE)
  \/ InitComplete

SpecPlace == Init /\ [][NextPlace]_vars

\* Selection and marker treatment once init() has completed: placement at
\* the suggested row, selection, Escape, hover, removal, clear-all, import.
NextUI ==
  \/ \E pos \in ClickPositions, t \in now..MaxNow :
       phase = "ready" /\ Len(points) < MaxLen /\ StageClick(pos, t, TRUE)
  \/ \E id \in DOMAIN pointShapes : MarkerClick(id)
  \/ \E id \in idsOf(points) : ListClick(id)
  \/ \E id \in DOMAIN pointShapes : MarkerContextMenu(id, TRUE)
  \/ \E id \in idsOf(points) : ListDelete(id, TRUE)
  \/ KeyDelete(TRUE)
  \/ KeyEscape
  \/ \E id \in DOMAIN pointShapes : MouseEnter(id)
  \/ \E id \in DOMAIN pointShapes : MouseLeave(id)
  \/ \E confirmed \in BOOLEAN : ClearAllButton(confirmed, TRUE)
  \/ \E data \in FileLists :
       \E rnd \in Draws(Len(data)) : JSONImport(data, now, rnd, TRUE)
  \/ InitComplete

SpecUI == Init /\ [][NextUI]_vars

\* The operations that change the point list, across page loads, with
\* storage writes that may fail.
NextSession ==
  \/ \E pos \in ClickPositions, t \in now..MaxNow, ok \in BOOLEAN :
       Len(points) < MaxLen /\ StageClick(pos, t, ok)
  \/ \E id \in DOMAIN pointShapes, ok \in BOOLEAN : MarkerContextMenu(id, ok)
  \/ \E id \in idsOf(points), ok \in BOOLEAN : ListDelete(id, ok)
  \/ \E ok \in BOOLEAN : ClearAllButton(TRUE, ok)
  \/ \E data \in FileLists, ok \in BOOLEAN :
       \E rnd \in Draws(Len(data)) : JSONImport(data, now, rnd, ok)
  \/ InitComplete
  \/ Reload

SpecSession == Init /\ [][NextSession]_vars

\* Items of an import list that carry an id of their own (a dump of stored
\* points): rows inside, below and above the range, and no row at all.
ItemsWithId ==
  [id : {<<1, 0, 1>>}, rowNum : {0, 1, 2, MaxRow + 1, Undefined},
   x : {100}, y : {50}, size : {Undefined}]

IdImportLists ==
  {<<>>} \cup {<<a>> : a \in ItemsWithId}
         \cup {<<a, b>> : a \in ItemsWithId, b \in ItemsWithId}

\* Math.random draws of one import, with enough values for every id made of
\* them to be new: different from each other, from the ids in the store and
\* from the ids in the list.
FreshRnds == {1, 2, 3, 4, 5}

\* The draws that would repeat an id of the store or of the list at time t.
UsedRnds(data, t) ==
  {id[3] : id \in {k \in idsOf(points) \cup {data[j].id : j \in 1..Len(data)} :
                      Len(k) = 3 /\ k[2] = t}}

RECURSIVE firstDraws(_, _)
\* The n smallest values of the set free, in ascending order.
firstDraws(free, n) ==
  IF n = 0 THEN <<>>
  ELSE LET m == CHOOSE x \in free : \A y \in free : x =< y
       IN  <<m>> \o firstDraws(free \ {m}, n - 1)

\* One sequence of new draws for the items of data.
FreshDraw(data, t) == firstDraws(FreshRnds \ UsedRnds(data, t), Len(data))

\* Store.importPoints over a store filled by addPoint and earlier imports.
NextImport ==
  \/ \E data \in IdImportLists, t \in now..MaxNow :
       ImportPoints(data, t, FreshDraw(data, t), TRUE)
  \/ \E r \in 1..MaxRow, ok \in BOOLEAN :
       Len(points) < MaxLen /\ AddPoint(StorePoint(r), ok)
  \/ \E id \in idsOf(points) : RemovePoint(id, TRUE)

SpecImport == Init /\ [][NextImport]_vars

----------------------------------------------------------------------------
(* Export and re-import *)

\* One item of Store.exportFullData as it comes back from the exported file:
\* the row under the key row, no rowNum key, no id; the plate fields that
\* are spread after it carry other keys and are left out.
exportItem(p) ==
  [rowNum |-> Undefined, row |-> JsonNumber(p.rowNum), x |-> JsonNumber(p.x),
   y |-> JsonNumber(p.y), size |-> JsonNumber(p.size)]

\* Store.exportFullData, written by exportData and parsed by handleJSONImport.
exportFullData(pts) == [i \in 1..Len(pts) |-> exportItem(pts[i])]

\* Sizes of the points handed to the store.
PointSizes == {0, 16, 24}

SizedPoint(r, x, size) ==
  [id |-> <<r, now>>, x |-> x, y |-> 50, size |-> size, rowNum |-> r]

\* The draws of an import whose items carry no id.
FreshDrawNoId(n, t) ==
  firstDraws(FreshRnds \ {id[3] : id \in {k \in idsOf(points) : Len(k) = 3 /\ k[2] = t}}, n)

\* The exported file of the current points goes through the import path.
ExportImport(t) ==
  /\ Len(points) > 0
  /\ ImportPoints(normalizedData(exportFullData(points)), t,
                  FreshDrawNoId(Len(points), t), TRUE)

\* Points of any size in the rows of the range, exported and imported back.
NextExport ==
  \/ \E t \in now..MaxNow : ExportImport(t)
  \/ \E r \in 1..MaxRow, x \in {100, 150}, size \in PointSizes :
       Len(points) < MaxLen /\ AddPoint(SizedPoint(r, x, size), TRUE)
  \/ \E id \in idsOf(points) : RemovePoint(id, TRUE)

SpecExport == Init /\ [][NextExport]_vars

----------------------------------------------------------------------------
(* Viewport: zoom, fit, pan *)

\* Most zoom steps one run takes: every step multiplies the scale, and the
\* exact fractions grow with each.
MaxZooms == 2

\* A setScale that stores what it is given.
scaleUnclamped(s) == s

\* Store.setScale: the value it stores.
setScale(s) == RMax(Frac(1, 10), RMin(Rat(6), s))

\* newScale of the wheel handler and of CanvasManager.zoom
zoomScale(oldScale, factor) ==
  RMax(Frac(1, 10), RMin(Rat(6), RMul(oldScale, factor)))

\* mousePointTo: the image-space coordinate under the pivot p.
mousePointTo(p, offset, sc) == RDiv(RSub(p, offset), sc)

\* A zoom that leaves the offset where it was.
offsetKept(p, offset, oldScale, newScale) == offset

\* newOffsetX, newOffsetY
zoomOffset(p, offset, oldScale, newScale) ==
  RSub(p, RMul(mousePointTo(p, offset, oldScale), newScale))

\* The first point with the given id, as Store.getPointById finds it.
getPointById(pts, id) == pts[findIndex(pts, id)]

\* An updateAllPointSizes that leaves every marker as it is.
sizesKept(shapes, pts, sc) == shapes

\* CanvasManager.updateAllPointSizes: markers whose point is gone are skipped.
updateAllPointSizes(shapes, pts, sc) ==
  [id \in DOMAIN shapes |->
     IF findIndex(pts, id) = 0 THEN shapes[id]
     ELSE [shapes[id] EXCEPT !.radius = circleRadius(getPointById(pts, id).size, sc)]]

\* What the listeners read in the notify() of store.setScale, when
\* store.setOffset has not been called yet: the new scale, the offset of
\* before.
afterSetScale(after, x, y) == [after EXCEPT !.offsetX = x, !.offsetY = y]

\* store.setScale(newScale); store.setOffset(x, y); this.updateTransform().
\* Each of the two store calls notifies the listeners.
setView(newScale, x, y) ==
  /\ scale' = setScale(newScale)
  /\ offsetX' = x
  /\ offsetY' = y
  /\ layers' = updateTransform(scale', offsetX', offsetY')
  /\ pointShapes' = updateAllPointSizes(pointShapes, points, scale')
  /\ seen' = [l \in listeners |-> <<afterSetScale(Snap', offsetX, offsetY), atNotify(Snap')>>]

\* The zoom about the pivot <<px, py>> shared by the wheel handler and
\* CanvasManager.zoom.
zoomAt(px, py, factor) ==
  LET newScale == zoomScale(scale, factor)
  IN  /\ zooms < MaxZooms
      /\ zooms' = zooms + 1
      /\ UNCHANGED <<points, selectedPointId, mode, circleSize, storage, nextRow,
                     phase, now, lastSelect, dragging, container, imageVars, excelData,
                     listeners, toast>>
      /\ setView(newScale, zoomOffset(px, offsetX, scale, newScale),
                 zoomOffset(py, offsetY, scale, newScale))

\* Pointer positions on the stage.
WheelPositions == {<<50, 150>>}

\* stage 'wheel': deltaY < 0 zooms in by 1.12, otherwise out by 0.89.
Wheel(pos, up) ==
  zoomAt(Rat(pos[1]), Rat(pos[2]), IF up THEN Frac(28, 25) ELSE Frac(89, 100))

\* CanvasManager.zoom, about the centre of the container.
zoom(factor) == zoomAt(Frac(container[1], 2), Frac(container[2], 2), factor)

\* The factors of the zoom buttons and keys (1.25 and 0.8), and a factor that
\* passes the upper end of the scale range from half of it.
ZoomFactors == {Frac(5, 4), Frac(4, 5), Rat(2)}

\* #zoomIn, #zoomOut and the + and - keys (listeners of setupEventListeners)
ZoomButton(factor) == phase = "ready" /\ zoom(factor)

\* CanvasManager.fitToContent on the image that is displayed.
fitScale(img) ==
  LET contentWidth == RMul(Rat(img[1]), Frac(18, 25))
      contentHeight == RMul(Rat(img[2]), Frac(12, 25))
      sc == RMul(RMin(RDiv(Rat(container[1]), contentWidth),
                      RDiv(Rat(container[2]), contentHeight)), Frac(23, 25))
  IN  RMax(Frac(3, 10), RMin(Rat(4), sc))

fitOffsetX(img, sc) ==
  LET contentLeft == RMul(Rat(img[1]), Frac(3, 20))
      contentWidth == RMul(Rat(img[1]), Frac(18, 25))
  IN  RSub(Frac(container[1], 2),
           RMul(RAdd(contentLeft, RDiv(contentWidth, Rat(2))), sc))

fitOffsetY(img, sc) ==
  LET contentTop == RMul(Rat(img[2]), Frac(7, 25))
      contentHeight == RMul(Rat(img[2]), Frac(12, 25))
  IN  RSub(Frac(container[2], 2),
           RMul(RAdd(contentTop, RDiv(contentHeight, Rat(2))), sc))

fitToContent ==
  IF backgroundImage = NoImage
  THEN UNCHANGED vars
  ELSE LET sc == fitScale(backgroundImage)
       IN  /\ UNCHANGED <<points, selectedPointId, mode, circleSize, storage,
                          nextRow, phase, now, lastSelect, dragging, container,
                          zooms, imageVars, excelData, listeners, toast>>
           /\ setView(sc, fitOffsetX(backgroundImage, sc), fitOffsetY(backgroundImage, sc))

\* #fitToContent and the f key (listeners of setupEventListeners)
FitButton == phase = "ready" /\ fitToContent

\* Store.setScale called directly.
SetScale(s) ==
  /\ scale' = setScale(s)
  /\ UNCHANGED <<points, selectedPointId, mode, circleSize, storage, now>>
  /\ UNCHANGED canvasVars
  /\ UNCHANGED <<offsetX, offsetY, dragging, container, layers, zooms, imageVars,
                 excelData, listeners, toast>>
  /\ Notify

\* Store.setOffset called directly.
SetOffset(x, y) ==
  /\ offsetX' = x
  /\ offsetY' = y
  /\ UNCHANGED <<points, selectedPointId, mode, circleSize, storage, now>>
  /\ UNCHANGED canvasVars
  /\ UNCHANGED <<scale, dragging, container, layers, zooms, imageVars, excelData,
                 listeners, toast>>
  /\ Notify

\* Scales handed to Store.setScale: below, inside and above its range.
ScaleInputs == {Rat(0), Rat(5), Rat(7)}

----------------------------------------------------------------------------
(* Image loading *)

\* Images a user picks: one that fits the container with a scale inside
\* [0.3, 4], one too large, one too small, and a file that does not decode.
Images ==
  {[name |-> "plan", w |-> 100, h |-> 100, decodes |-> TRUE],
   [name |-> "large", w |-> 1000, h |-> 500, decodes |-> TRUE],
   [name |-> "small", w |-> 10, h |-> 10, decodes |-> TRUE],
   [name |-> "broken", w |-> 0, h |-> 0, decodes |-> FALSE]}

\* handleImageUpload: the file is read and CanvasManager.loadImage starts; the
\* image decodes later.
ImageUpload(img) ==
  /\ phase = "ready"
  /\ pending' = pending \cup {img}
  /\ UNCHANGED <<points, selectedPointId, mode, circleSize, storage, now,
                 viewVars, backgroundImage, imageChildren, imageBase64, excelData,
                 listeners, seen, toast>>
  /\ UNCHANGED canvasVars

\* A destroy() that leaves the node in its layer.
destroyKept(children, node) == children

\* node.destroy(): the node leaves the children of its layer.
destroy(children, node) ==
  IF \E i \in DOMAIN children : children[i] = node
  THEN LET k == CHOOSE i \in DOMAIN children :
                  children[i] = node /\ \A j \in 1..(i - 1) : children[j] # node
       IN  SubSeq(children, 1, k - 1) \o SubSeq(children, k + 1, Len(children))
  ELSE children

\* imageObj.onload of CanvasManager.loadImage, then the rest of
\* handleImageUpload. toDataURL either gives the blob or throws (caught).
\* store.setImageBase64, and the store.setScale and store.setOffset of
\* fitToContent, notify the listeners in turn.
ImageLoaded(img, blob) ==
  /\ img \in pending
  /\ img.decodes
  /\ pending' = pending \ {img}
  /\ backgroundImage' = <<img.w, img.h>>
  /\ imageChildren' = Append(IF backgroundImage # NoImage
                             THEN destroy(imageChildren, backgroundImage)
                             ELSE imageChildren,
                             backgroundImage')
  /\ imageBase64' = IF blob THEN img.name ELSE imageBase64
  /\ LET sc == fitScale(backgroundImage')
         x == fitOffsetX(backgroundImage', sc)
         y == fitOffsetY(backgroundImage', sc)
     IN  /\ scale' = setScale(sc)
         /\ offsetX' = x
         /\ offsetY' = y
  /\ layers' = updateTransform(scale', offsetX', offsetY')
  /\ pointShapes' = updateAllPointSizes(pointShapes, points, scale')
  /\ toast' = "info"
  /\ UNCHANGED <<points, selectedPointId, mode, circleSize, storage, nextRow,
                 phase, now, lastSelect, dragging, container, zooms, excelData,
                 listeners>>
  /\ seen' = [l \in listeners |->
                (IF blob
                 THEN <<[afterSetScale(Snap', offsetX, offsetY) EXCEPT !.scale = scale]>>
                 ELSE <<>>)
                  \o <<afterSetScale(Snap', offsetX, offsetY), atNotify(Snap')>>]

\* A failed load that takes the displayed image and its blob away.
imageFailedClearing(img) ==
  /\ img \in pending
  /\ ~img.decodes
  /\ pending' = pending \ {img}
  /\ toast' = "error"
  /\ backgroundImage' = NoImage
  /\ imageChildren' = <<>>
  /\ imageBase64' = NoBlob
  /\ UNCHANGED <<points, selectedPointId, mode, circleSize, storage, now,
                 viewVars, excelData, listeners, seen>>
  /\ UNCHANGED canvasVars

\* imageObj.onerror of CanvasManager.loadImage: the promise rejects, and
\* handleImageUpload reports it.
ImageFailed(img) ==
  /\ img \in pending
  /\ ~img.decodes
  /\ pending' = pending \ {img}
  /\ toast' = "error"
  /\ UNCHANGED <<points, selectedPointId, mode, circleSize, storage, now,
                 viewVars, backgroundImage, imageChildren, imageBase64, excelData,
                 listeners, seen>>
  /\ UNCHANGED canvasVars

----------------------------------------------------------------------------
(* The viewport driven by wheel, buttons, keys, store calls and image loads *)

\* One image is picked in a run, at any moment of it.
NextView ==
  \/ InitComplete
  \/ \E pos \in WheelPositions, up \in BOOLEAN : Wheel(pos, up)
  \/ \E factor \in ZoomFactors : ZoomButton(factor)
  \/ FitButton
  \/ \E s \in ScaleInputs : SetScale(s)
  \/ \E img \in Images : pending = {} /\ backgroundImage = NoImage /\ ImageUpload(img)
  \/ \E img \in Images : ImageLoaded(img, TRUE)
  \/ \E img \in Images : ImageFailed(img)

SpecView == Init /\ [][NextView]_vars

----------------------------------------------------------------------------
(* Store setters and subscription, called directly *)

\* What every setter below leaves alone.
setterKept ==
  <<points, storage, now, container, layers, zooms, backgroundImage, imageChildren, pending,
    listeners, toast, selectedPointId, scale, offsetX, offsetY, canvasVars>>

\* Store.setMode
StoreSetMode(m) ==
  /\ mode' = m
  /\ UNCHANGED <<setterKept, circleSize, dragging, excelData, imageBase64>>
  /\ Notify

\* Store.setCircleSize
SetCircleSize(size) ==
  /\ circleSize' = size
  /\ UNCHANGED <<setterKept, mode, dragging, excelData, imageBase64>>
  /\ Notify

\* Store.setDragging: the three fields are set and the call returns.
SetDragging(isDragging, startX, startY) ==
  /\ dragging' = [isDragging |-> isDragging, dragStartX |-> startX,
                  dragStartY |-> startY]
  /\ UNCHANGED <<setterKept, mode, circleSize, excelData, imageBase64>>
  /\ Quiet

\* Store.setExcelData
SetExcelData(rows) ==
  /\ excelData' = rows
  /\ UNCHANGED <<setterKept, mode, circleSize, dragging, imageBase64>>
  /\ Notify

\* Store.setImageBase64
SetImageBase64(base64) ==
  /\ imageBase64' = base64
  /\ UNCHANGED <<setterKept, mode, circleSize, dragging, excelData>>
  /\ Notify

\* Store.subscribe
Subscribe(l) ==
  /\ listeners' = listeners \cup {l}
  /\ seen' = [k \in listeners' |-> IF k \in listeners THEN seen[k] ELSE <<>>]
  /\ UNCHANGED <<points, selectedPointId, mode, circleSize, storage, now,
                 viewVars, imageVars, excelData, toast>>
  /\ UNCHANGED canvasVars

\* The function Store.subscribe returned is called.
Unsubscribe(l) ==
  /\ l \in listeners
  /\ listeners' = listeners \ {l}
  /\ seen' = [k \in listeners' |-> seen[k]]
  /\ UNCHANGED <<points, selectedPointId, mode, circleSize, storage, now,
                 viewVars, imageVars, excelData, toast>>
  /\ UNCHANGED canvasVars

\* Listeners that subscribe: the one of init() and another one.
Listeners == {"ui", "probe"}

\* One-item and empty import lists.
NotifyImportLists == {<<>>, <<[rowNum |-> 1, x |-> 100, y |-> 50, size |-> Undefined]>>}

\* The calls of the store that change its state, one call per step.
StoreChange ==
  \/ \E m \in {"draw", "pan"} : StoreSetMode(m)
  \/ SetScale(Rat(2))
  \/ SetOffset(Rat(10), Rat(20))
  \/ SetCircleSize(16)
  \/ \E id \in idsOf(points) : SetSelectedPointId(id)
  \/ SetDragging(TRUE, Rat(5), Rat(5))
  \/ SetDragging(FALSE, Rat(0), Rat(0))
  \/ Len(points) < MaxLen /\ ~hasRowNum(points, 1) /\ AddPoint(StorePoint(1), TRUE)
  \/ \E id \in idsOf(points) : RemovePoint(id, TRUE)
  \/ ClearAllPoints(TRUE)
  \/ \E data \in NotifyImportLists :
       ImportPoints(data, now, FreshDrawNoId(Len(data), now), TRUE)
  \/ SetExcelData(MaxRow)
  \/ SetImageBase64("plan")
  \/ storage.present /\ LoadFromLocal

\* Store calls with listeners coming and going; addPoint on a taken row and
\* removePoint of an unknown id change nothing.
NextNotify ==
  \/ StoreChange
  \/ \E l \in Listeners : Subscribe(l)
  \/ \E l \in Listeners : Unsubscribe(l)
  \/ hasRowNum(points, 1) /\ AddPoint(StorePoint(1), TRUE)
  \/ RemovePoint(<<0, 0>>, TRUE)

SpecNotify == Init /\ [][NextNotify]_vars

----------------------------------------------------------------------------
(* The stage click handler with its target *)

\* What was clicked: the stage itself, the background image, or a marker.
ClickTargets == {"stage", "image", "marker"}

\* stage 'click': the handler returns unless the target is the stage or the
\* background image.
StageClickOn(target, pos, t, ok) ==
  IF target \in {"stage", "image"} THEN StageClick(pos, t, ok) ELSE UNCHANGED vars

\* Clicks on any target in either mode, with anything typed in #nextRow.
NextClick ==
  \/ \E target \in ClickTargets, pos \in ClickPositions, t \in now..MaxNow :
       Len(points) < MaxLen /\ StageClickOn(target, pos, t, TRUE)
  \/ \E text \in Texts : TypeNextRow(text)
  \/ \E m \in {"draw", "pan"} : SetMode(m)
  \/ \E id \in DOMAIN pointShapes : MarkerClick(id)
  \/ InitComplete

SpecClick == Init /\ [][NextClick]_vars

----------------------------------------------------------------------------
(* Markers under zoom *)

\* #circleSize 'input': parseInt of the slider value, store.setCircleSize.
CircleSizeInput(size) == phase = "ready" /\ SetCircleSize(size)

\* The pointer at the centre of the container, the pivot of
\* CanvasManager.zoom.
Centre == <<container[1] \div 2, container[2] \div 2>>

\* Markers of two sizes are placed, on the bare stage, and removed while the
\* view is zoomed in by the wheel, out by the button and key, and fitted to
\* a loaded image. The pointer stays at the centre of the container.
NextMarkers ==
  \/ InitComplete
  \/ Len(points) < MaxLen /\ backgroundImage = NoImage /\ StageClick(Centre, now, TRUE)
  \/ \E size \in {16, 24} : CircleSizeInput(size)
  \/ Wheel(Centre, TRUE)
  \/ ZoomButton(Frac(4, 5))
  \/ FitButton
  \/ pending = {} /\ ImageUpload(CHOOSE img \in Images : img.name = "plan")
  \/ \E img \in Images : ImageLoaded(img, TRUE)
  \/ \E id \in DOMAIN pointShapes : MarkerContextMenu(id, TRUE)

SpecMarkers == Init /\ [][NextMarkers]_vars

----------------------------------------------------------------------------
(* Import files of any content *)

\* An import that takes any file for an array the user confirmed.
outcomeAcceptAll(content, confirmed) == "import"

\* What handleJSONImport's reader.onload does with a file: JSON.parse or the
\* Array.isArray test throws (caught, reported), confirm() is declined, or the
\* array is imported.
importOutcome(content, confirmed) ==
  IF content.kind \in {"invalid", "value"} THEN "error"
  ELSE IF ~confirmed THEN "declined"
  ELSE "import"

\* handleJSONImport's reader.onload
handleJSONImport(content, confirmed, t, rnd, ok) ==
  IF importOutcome(content, confirmed) = "import"
  THEN JSONImport(content.data, t, rnd, ok)
  ELSE /\ phase = "ready"
       /\ toast' = IF importOutcome(content, confirmed) = "error" THEN "error" ELSE toast
       /\ UNCHANGED <<points, selectedPointId, mode, circleSize, storage,
                      pointShapes, nextRow, phase, now, lastSelect, frameVars, seen>>

\* Files a user picks: text that is not JSON, a JSON value that is not an
\* array, and arrays.
FileContents ==
  {[kind |-> "invalid", data |-> <<>>], [kind |-> "value", data |-> <<>>]}
    \cup {[kind |-> "array", data |-> d] : d \in FileLists}

\* Imports of any file into a session with points, a selection and a zoomed
\* view.
NextImportFile ==
  \/ InitComplete
  \/ phase = "ready" /\ Len(points) < MaxLen /\ StageClick(Centre, now, TRUE)
  \/ \E id \in DOMAIN pointShapes : MarkerClick(id)
  \/ \E factor \in {Frac(5, 4), Frac(4, 5)} : ZoomButton(factor)
  \/ \E content \in FileContents, confirmed \in BOOLEAN :
       \E rnd \in Draws(Len(content.data)) :
          handleJSONImport(content, confirmed, now, rnd, TRUE)

SpecImportFile == Init /\ [][NextImportFile]_vars

----------------------------------------------------------------------------
(* Image loads that fail while other events go on *)

\* Files picked in the image input: two that decode and one that does not.
UploadImages == {img \in Images : img.name \in {"plan", "large", "broken"}}

\* Several loads may be under way at once; zoom buttons are handled between
\* a load's start and its onload / onerror, and clicks at the centre of the
\* container until an image is shown.
NextImage ==
  \/ InitComplete
  \/ /\ phase = "ready" /\ Len(points) < MaxLen /\ backgroundImage = NoImage
     /\ StageClick(Centre, now, TRUE)
  \/ \E factor \in {Frac(5, 4), Frac(4, 5)} : ZoomButton(factor)
  \/ \E img \in UploadImages : img \notin pending /\ ImageUpload(img)
  \/ \E img \in Images, blob \in BOOLEAN : ImageLoaded(img, blob)
  \/ \E img \in Images : ImageFailed(img)

SpecImage == Init /\ [][NextImage]_vars

----------------------------------------------------------------------------
(* Persistence of the point list, with subscribers, across page loads *)

\* One-item and empty import lists for the persisted record.
PersistImportLists ==
  {<<>>, <<[rowNum |-> 2, x |-> 100, y |-> 50, size |-> Undefined]>>}

\* A call of addPoint (for a row not in use), removePoint (of an id of the
\* list), clearAllPoints or importPoints whose storage write succeeds.
PointMutation(t) ==
  \/ \E r \in RowInputs :
       /\ ~hasRowNum(points, r)
       /\ Len(points) < MaxLen
       /\ now' = t
       /\ AddPoint(StorePoint(r), TRUE)
  \/ \E id \in idsOf(points) : now' = t /\ RemovePoint(id, TRUE)
  \/ now' = t /\ ClearAllPoints(TRUE)
  \/ \E data \in PersistImportLists :
       \E rnd \in Draws(Len(data)) : ImportPoints(data, t, rnd, TRUE)

\* The store's point operations with listeners subscribed; a new page load
\* constructs a new store and init() reads the record back.
NextPersist ==
  \/ \E l \in Listeners : l \notin listeners /\ Subscribe(l)
  \/ PointMutation(now)
  \/ LoadFromLocal
  \/ NewStore

SpecPersist == Init /\ [][NextPersist]_vars

----------------------------------------------------------------------------
(* Export of the points with their plate data *)

\* A getPlateData that reads the record one index further.
plateAtRow(rows, rowNum) ==
  IF rowNum \in 0..(rows - 1) THEN [plate |-> rowNum + 1, signals |-> -70] ELSE EmptyMap

\* Store.getPlateData: this.excelData[rowNum - 1] || null, for a dataset of
\* the given number of records, each { plate, signals }. An index that is
\* not one of the array (negative, past the end, NaN, null - 1) reads
\* undefined; the null returned then is the record without keys here, which
\* is what exportFullData makes of it.
getPlateData(rows, rowNum) ==
  IF rowNum \in 1..rows THEN [plate |-> rowNum, signals |-> -70] ELSE EmptyMap

\* { ...base, ...extra }: the keys of both, extra's value where both have one.
spread(base, extra) ==
  [k \in DOMAIN base \cup DOMAIN extra |->
     IF k \in DOMAIN extra THEN extra[k] ELSE base[k]]

\* One item of Store.exportFullData: getPlateData(p.rowNum) || {} spread
\* after row, x, y and size.
exportedItem(p, rows) ==
  spread([row |-> p.rowNum, x |-> p.x, y |-> p.y, size |-> p.size],
         getPlateData(rows, p.rowNum))

\* Store.exportFullData with the plate data of the store.
exportedData(pts, rows) == [i \in 1..Len(pts) |-> exportedItem(pts[i], rows)]

\* exportData of main.ts: nothing is written when there is no point.
ExportData ==
  /\ phase = "ready"
  /\ toast' = IF Len(points) = 0 THEN "error" ELSE "exported"
  /\ UNCHANGED <<points, selectedPointId, mode, circleSize, storage, pointShapes,
                 nextRow, phase, now, lastSelect, frameVars, seen>>

\* Points placed for any typed row, plate data of any length, exports, and
\* page loads that read the points back from storage.
NextExportData ==
  \/ InitComplete
  \/ \E text \in Texts : phase = "ready" /\ TypeNextRow(text)
  \/ \E pos \in ClickPositions :
       phase = "ready" /\ Len(points) < MaxLen /\ StageClick(pos, now, TRUE)
  \/ \E rows \in 0..MaxRow : phase = "ready" /\ SetExcelData(rows)
  \/ ExportData
  \/ Reload

SpecExportData == Init /\ [][NextExportData]_vars

----------------------------------------------------------------------------
(* Store.addPoint for a row that may be in use *)

\* addPoint calls for any row, with a selection, a changed scale, listeners
\* that subscribe at any time and storage writes that may fail.
NextDuplicate ==
  \/ \E l \in Listeners : l \notin listeners /\ Subscribe(l)
  \/ \E r \in RowInputs, ok \in BOOLEAN :
       /\ Len(points) < MaxLen \/ hasRowNum(points, r)
       /\ AddPoint(StorePoint(r), ok)
  \/ \E id \in idsOf(points) : SetSelectedPointId(id)
  \/ \E s \in {Rat(5)} : SetScale(s)

SpecDuplicate == Init /\ [][NextDuplicate]_vars

----------------------------------------------------------------------------
(* Removal by ids that are and are not in the store *)

\* An id no point has.
AbsentId == <<1, 0, 0>>

\* Placements, selections and removals through the store and through the
\* canvas, for ids of points, for the id of a marker whose point is gone
\* (one such marker at a time) and for an id nothing has.
NextRemove ==
  \/ InitComplete
  \/ \E l \in {"probe"} : l \notin listeners /\ Subscribe(l)
  \/ \E pos \in ClickPositions :
       phase = "ready" /\ Len(points) < MaxLen /\ StageClick(pos, now, TRUE)
  \/ \E id \in DOMAIN pointShapes : MarkerClick(id)
  \/ \E id \in idsOf(points) \cup {AbsentId} :
       DOMAIN pointShapes \subseteq idsOf(points) /\ RemovePoint(id, TRUE)
  \/ \E id \in DOMAIN pointShapes : MarkerContextMenu(id, TRUE)

SpecRemove == Init /\ [][NextRemove]_vars

----------------------------------------------------------------------------
(* Markers rendered again at any scale *)

\* Placements of two sizes at any scale, zooms and fits, and the re-renders
\* of an import and of a page load that reads the points back.
NextRender ==
  \/ InitComplete
  \/ Len(points) < MaxLen /\ StageClick(Centre, now, TRUE)
  \/ \E size \in {16, 24} : CircleSizeInput(size)
  \/ Wheel(Centre, TRUE)
  \/ ZoomButton(Frac(4, 5))
  \/ FitButton
  \/ pending = {} /\ backgroundImage = NoImage
       /\ ImageUpload(CHOOSE img \in Images : img.name = "plan")
  \/ \E img \in Images : ImageLoaded(img, TRUE)
  \/ \E data \in {<<AliasItem(2), FileItem(1)>>} :
       \E rnd \in {FreshDrawNoId(Len(data), now)} : JSONImport(data, now, rnd, TRUE)
  \/ Reload

SpecRender == Init /\ [][NextRender]_vars

----------------------------------------------------------------------------
(* Storage writes that fail *)

\* A call of addPoint (for a row of the range not in use), removePoint (of
\* an id of the list), clearAllPoints or importPoints, whose
\* localStorage.setItem succeeds or throws.
PointCall(ok) ==
  \/ \E r \in 1..MaxRow :
       ~hasRowNum(points, r) /\ Len(points) < MaxLen /\ AddPoint(StorePoint(r), ok)
  \/ \E id \in idsOf(points) : RemovePoint(id, ok)
  \/ ClearAllPoints(ok)
  \/ \E data \in PersistImportLists :
       \E rnd \in Draws(Len(data)) : ImportPoints(data, now, rnd, ok)

\* The point list localStorage holds: none is the empty list for a reader.
persisted(st) == IF st.present THEN st.pts ELSE <<>>

\* The store's point operations with a storage that may refuse any write,
\* listeners, and page loads that read the record back.
NextWriteFail ==
  \/ \E l \in {"ui"} : l \notin listeners /\ Subscribe(l)
  \/ \E ok \in BOOLEAN : PointCall(ok)
  \/ LoadFromLocal
  \/ NewStore

SpecWriteFail == Init /\ [][NextWriteFail]_vars

----------------------------------------------------------------------------
(* Panning by drag *)

\* stage 'mousedown': the left button in pan mode starts a drag at the
\* pointer position.
MouseDown(pos, button) ==
  /\ dragging' = IF button = 0 /\ mode = "pan"
                 THEN [isDragging |-> TRUE,
                       dragStartX |-> RSub(Rat(pos[1]), offsetX),
                       dragStartY |-> RSub(Rat(pos[2]), offsetY)]
                 ELSE dragging
  /\ UNCHANGED <<points, selectedPointId, mode, circleSize, storage, now,
                 scale, offsetX, offsetY, container, layers, zooms, imageVars,
                 excelData, listeners, toast>>
  /\ UNCHANGED canvasVars
  /\ IF button = 0 /\ mode = "pan" THEN Quiet ELSE UNCHANGED seen

\* stage 'mousemove': store.setOffset and updateTransform while a drag is on
\* in pan mode.
MouseMove(pos) ==
  IF dragging.isDragging /\ mode = "pan"
  THEN /\ offsetX' = RSub(Rat(pos[1]), dragging.dragStartX)
       /\ offsetY' = RSub(Rat(pos[2]), dragging.dragStartY)
       /\ layers' = updateTransform(scale, offsetX', offsetY')
       /\ pointShapes' = updateAllPointSizes(pointShapes, points, scale)
       /\ UNCHANGED <<points, selectedPointId, mode, circleSize, storage, nextRow,
                      phase, now, lastSelect, scale, dragging, container, zooms,
                      imageVars, excelData, listeners, toast>>
       /\ Notify
  ELSE UNCHANGED vars

\* stage 'mouseup mouseleave': store.setDragging(false)
MouseUp ==
  /\ dragging' = NotDragging
  /\ UNCHANGED <<points, selectedPointId, mode, circleSize, storage, now,
                 scale, offsetX, offsetY, container, layers, zooms, imageVars,
                 excelData, listeners, toast>>
  /\ UNCHANGED canvasVars
  /\ Quiet

\* Pointer positions of a drag.
DragPositions == {<<50, 150>>, <<120, 80>>}

\* How far, in pixels, the drags of a run move the image from the origin.
MaxPan == 100

\* Drags with either button in either mode, with mode switches and wheel
\* zooms between the pointer events.
NextDrag ==
  \/ InitComplete
  \/ \E m \in {"draw", "pan"} : m # mode /\ SetMode(m)
  \/ \E pos \in DragPositions, button \in {0, 2} : MouseDown(pos, button)
  \/ \E pos \in DragPositions :
       /\ MouseMove(pos)
       /\ RLe(Rat(0 - MaxPan), offsetX') /\ RLe(offsetX', Rat(MaxPan))
  \/ MouseUp
  \/ \E pos \in WheelPositions, up \in BOOLEAN : Wheel(pos, up)

SpecDrag == Init /\ [][NextDrag]_vars

----------------------------------------------------------------------------
(* The suggested next row *)

\* Every handler that changes which rows are in use: placement at the row
\* of #nextRow, right-click on a marker, the list's delete button, Delete on
\* the selected point, clear-all and import; the user may type a row first.
NextRowInput ==
  \/ InitComplete
  \/ \E text \in {"2", "3"} : TypeNextRow(text)
  \/ \E pos \in ClickPositions :
       phase = "ready" /\ Len(points) < MaxLen /\ StageClick(pos, now, TRUE)
  \/ \E id \in DOMAIN pointShapes : MarkerClick(id)
  \/ \E id \in DOMAIN pointShapes : MarkerContextMenu(id, TRUE)
  \/ \E id \in idsOf(points) : ListDelete(id, TRUE)
  \/ KeyDelete(TRUE)
  \/ \E confirmed \in BOOLEAN : ClearAllButton(confirmed, TRUE)
  \/ \E data \in {<<FileItem(1)>>, <<AliasItem(2), FileItem(1)>>} :
       JSONImport(data, now, FreshDrawNoId(Len(data), now), TRUE)

SpecRowInput == Init /\ [][NextRowInput]_vars

----------------------------------------------------------------------------
(* The layers and the store's viewport *)

\* Pointer positions of the placement clicks.
LayerClicks == {<<100, 50>>, <<37, 121>>}

\* The handlers that move the view: wheel and button zooms, a drag in pan
\* mode, the fit of an uploaded image and of the fit button, and page
\* loads. A point is placed in any view they reach; the list is cleared
\* before the view moves on.
NextLayers ==
  \/ InitComplete
  \/ \E pos \in LayerClicks :
       phase = "ready" /\ Len(points) = 0 /\ StageClick(pos, now, TRUE)
  \/ ClearAllButton(TRUE, TRUE)
  \/ \E m \in {"draw", "pan"} : m # mode /\ SetMode(m)
  \/ \E pos \in WheelPositions : Len(points) = 0 /\ Wheel(pos, FALSE)
  \/ Len(points) = 0 /\ ZoomButton(Frac(5, 4))
  \/ ~dragging.isDragging /\ MouseDown(<<50, 150>>, 0)
  \/ \E pos \in DragPositions \ {<<50, 150>>} :
       /\ Len(points) = 0
       /\ MouseMove(pos)
       /\ RLe(Rat(0 - MaxPan), offsetX') /\ RLe(offsetX', Rat(MaxPan))
  \/ MouseUp
  \/ \E img \in UploadImages :
       /\ img.name = "plan" /\ pending = {} /\ backgroundImage = NoImage
       /\ Len(points) = 0
       /\ ImageUpload(img)
  \/ \E img \in pending : ImageLoaded(img, TRUE)
  \/ Len(points) = 0 /\ FitButton
  \/ Len(points) = 0 /\ Reload

SpecLayers == Init /\ [][NextLayers]_vars

----------------------------------------------------------------------------
(* Image loads that overlap *)

\* Points are placed and selected on the bare stage; then images are picked
\* while earlier loads are still under way, and the loads complete in any
\* order, with or without a blob.
NextImageLoads ==
  \/ InitComplete
  \/ /\ phase = "ready" /\ Len(points) < MaxLen /\ backgroundImage = NoImage
     /\ StageClick(Centre, now, TRUE)
  \/ \E id \in DOMAIN pointShapes : backgroundImage = NoImage /\ MarkerClick(id)
  \/ \E img \in UploadImages : img \notin pending /\ ImageUpload(img)
  \/ \E img \in pending, blob \in BOOLEAN : ImageLoaded(img, blob)
  \/ \E img \in pending : ImageFailed(img)

SpecImageLoads == Init /\ [][NextImageLoads]_vars

----------------------------------------------------------------------------
(* Properties *)

rowsOf(pts) == {pts[i].rowNum : i \in DOMAIN pts}

\* C1: after any sequence of Store.addPoint calls from the empty store, no
\* two points of the list have the same rowNum.
C1_NoSharedRow ==
  \A i \in DOMAIN points, j \in DOMAIN points :
     i # j => points[i].rowNum # points[j].rowNum

\* C2: in every state reached by addPoint, removePoint, clearAllPoints,
\* importPoints and loadFromLocal the list holds at most one point per rowNum.
C2_OnePointPerRow == Cardinality(rowsOf(points)) = Len(points)

\* C3: every point of the store has an integer rowNum between 1 and the row
\* ceiling, whatever was typed in the next-row input.
C3_RowInRange == \A i \in DOMAIN points : points[i].rowNum \in 1..MaxRow

\* C4: the point list is in ascending rowNum order: each point's rowNum is
\* <= the rowNum of the point after it.
C4_AscendingRows ==
  \A i \in DOMAIN points, j \in DOMAIN points :
     i < j => JsLe(points[i].rowNum, points[j].rowNum)

freeRows(pts) == (1..MaxRow) \ rowsOf(pts)

\* C5: getNextAvailableRow returns the smallest row of the range that no
\* point uses, and the row ceiling when every row of the range is used.
C5_NextAvailableRow ==
  IF freeRows(points) = {}
  THEN getNextAvailableRow(points) = MaxRow
  ELSE /\ getNextAvailableRow(points) \in freeRows(points)
       /\ \A r \in freeRows(points) : getNextAvailableRow(points) =< r

\* C5 witness: every row of the range is used and the answer is the ceiling.
C5_FullStore ==
  /\ freeRows(points) = {}
  /\ getNextAvailableRow(points) = MaxRow

\* C6: selectedPointId is null or the id of a point of the list.
C6_SelectionExists ==
  selectedPointId = NoId \/ selectedPointId \in idsOf(points)

\* C7: removePoint(id) of the selected point leaves no selection;
\* removePoint(id) of another existing point leaves the selection unchanged.
C7_RemoveAndSelection ==
  [][\A id \in idsOf(points) :
        RemovePoint(id, TRUE) =>
          selectedPointId' = IF selectedPointId = id THEN NoId ELSE selectedPointId]_vars

\* C7 witness: the selected point has been removed and nothing is selected.
C7_SelectedWasRemoved ==
  /\ lastSelect.id # NoId
  /\ lastSelect.removed
  /\ selectedPointId = NoId
  /\ Len(points) > 0

\* C8: after any sequence of selectPoint and removePoint calls the store
\* selects at most one id (its single selectedPointId: none, or the id of a
\* point), and the selected id is the id of the latest selectPoint call if
\* that point still exists, none if it was removed since.
C8_SelectionIsLatest ==
  /\ selectedPointId \in {NoId} \cup idsOf(points)
  /\ lastSelect.id = NoId => selectedPointId = NoId
  /\ (lastSelect.id # NoId /\ lastSelect.removed) => selectedPointId = NoId
  /\ (lastSelect.id # NoId /\ ~lastSelect.removed) =>
        /\ selectedPointId = lastSelect.id
        /\ lastSelect.id \in idsOf(points)

\* C8 witness: a selection stands while another point has been placed too.
C8_LatestSelected ==
  /\ lastSelect.id # NoId
  /\ ~lastSelect.removed
  /\ selectedPointId = lastSelect.id
  /\ Len(points) > 1

selectedMarkers ==
  {k \in DOMAIN pointShapes :
     pointShapes[k].stroke = "#00ff88" \/ pointShapes[k].shadowEnabled}

\* C9: the markers showing the selected treatment (green stroke, shadow) are
\* exactly the selected point's marker, none when nothing is selected.
C9_SelectedTreatment ==
  selectedMarkers = IF selectedPointId = NoId THEN {} ELSE {selectedPointId}

\* C10: the ids keyed in the marker map are the ids of the points.
C10_MarkersMatchPoints == DOMAIN pointShapes = idsOf(points)

\* The number of items of an import list whose rowNum is a row of the range.
validCount(data) == Cardinality({i \in DOMAIN data : data[i].rowNum \in 1..MaxRow})

\* C11: importPoints(L) replaces the list: it leaves exactly as many points
\* as L has items with a row of the range, none of the previous points, ids
\* that are new (not in L, not in the store before, all different), sorted
\* ascending by rowNum.
C11_ImportReplaces ==
  [][\A data \in IdImportLists :
        ImportPoints(data, now', FreshDraw(data, now'), TRUE) =>
          /\ Len(points') = validCount(data)
          /\ idsOf(points') \cap idsOf(points) = {}
          /\ idsOf(points') \cap {data[j].id : j \in 1..Len(data)} = {}
          /\ Cardinality(idsOf(points')) = Len(points')
          /\ \A i \in DOMAIN points' : points'[i].rowNum \in 1..MaxRow
          /\ \A i \in DOMAIN points', j \in DOMAIN points' :
               i < j => points'[i].rowNum =< points'[j].rowNum]_vars

\* C11 witness: two imported points, in ascending order of their rows.
C11_TwoImported ==
  /\ Len(points) = 2
  /\ \A i \in DOMAIN points : Len(points[i].id) = 3
  /\ points[1].rowNum < points[2].rowNum

\* The (rowNum, x, y, size) tuple of a point.
tupleOf(p) == <<p.rowNum, p.x, p.y, p.size>>

\* Two point lists with the same multiset of tuples.
sameTuples(a, b) ==
  /\ Len(a) = Len(b)
  /\ \A i \in DOMAIN a :
       Cardinality({j \in DOMAIN a : tupleOf(a[j]) = tupleOf(a[i])})
         = Cardinality({j \in DOMAIN b : tupleOf(b[j]) = tupleOf(a[i])})

\* C12: exporting the points with exportFullData and importing the exported
\* items back (row mapped to rowNum) leaves a list with the same multiset of
\* (rowNum, x, y, size) tuples, whatever the sizes, 0 included.
C12_ExportImportKeepsTuples ==
  [][ExportImport(now') => sameTuples(points, points')]_vars

\* A fitToContent that found an image: the button or key, or the end of a load.
FitStep ==
  \/ backgroundImage # NoImage /\ fitToContent
  \/ \E img \in Images, blob \in BOOLEAN : ImageLoaded(img, blob)

\* C13: the scale is in [0.1, 6] in every state, whatever wheel zooms, button
\* and key zooms, setScale calls and fitToContent calls were made, and right
\* after a fitToContent on a loaded image it is in [0.3, 4].
C13_ScaleInRange ==
  /\ [](RLe(Frac(1, 10), scale) /\ RLe(scale, Rat(6)))
  /\ [][FitStep => (RLe(Frac(3, 10), scale') /\ RLe(scale', Rat(4)))]_vars

\* C13 witness: an image is displayed and zooming has brought the scale to
\* the upper end of its range.
C13_ZoomedToMax ==
  /\ backgroundImage # NoImage
  /\ zooms > 0
  /\ scale = Rat(6)

\* The pivot <<px, py>> shows the same image-space point before and after.
pivotKept(px, py) ==
  /\ mousePointTo(px, offsetX', scale') = mousePointTo(px, offsetX, scale)
  /\ mousePointTo(py, offsetY', scale') = mousePointTo(py, offsetY, scale)

\* C14: a wheel zoom at P, and a button zoom about the container centre P,
\* leave (P - offset) / scale as it was, also when the new scale is cut to
\* [0.1, 6]; from scale 1 and offset (0,0), zooming at (100,100) by 2 gives
\* scale 2 and offset (-100,-100).
C14_PivotIsFixed ==
  [][/\ \A pos \in WheelPositions, up \in BOOLEAN :
          Wheel(pos, up) => pivotKept(Rat(pos[1]), Rat(pos[2]))
     /\ \A factor \in ZoomFactors :
          ZoomButton(factor) => pivotKept(Frac(container[1], 2), Frac(container[2], 2))
     /\ (/\ scale = Rat(1) /\ offsetX = Rat(0) /\ offsetY = Rat(0)
         /\ container = <<200, 200>>
         /\ ZoomButton(Rat(2)))
          => (scale' = Rat(2) /\ offsetX' = Rat(0 - 100) /\ offsetY' = Rat(0 - 100))]_vars

\* C14 witness: the zoom of the example was made.
C14_ExampleZoom ==
  /\ zooms = 1
  /\ scale = Rat(2)
  /\ offsetX = Rat(0 - 100)
  /\ offsetY = Rat(0 - 100)

\* Every subscribed listener was called once, and read the state the call left.
NotifiedOnce == \A l \in listeners : seen'[l] = <<Snap'>>

\* C15: every store call that changes the state (setMode, setScale,
\* setOffset, setCircleSize, setSelectedPointId, setDragging, addPoint and
\* removePoint when they succeed, clearAllPoints, importPoints, setExcelData,
\* setImageBase64, loadFromLocal) calls each subscribed listener exactly once,
\* after the change is complete.
C15_EveryChangeNotifies == [][StoreChange => NotifiedOnce]_vars

\* The conditions under which a click may create a point.
mayCreate(target) ==
  /\ mode = "draw"
  /\ target \in {"stage", "image"}
  /\ getNextRowInput(nextRow) \in 1..MaxRow
  /\ ~hasRowNum(points, getNextRowInput(nextRow))

\* C16: a click on the stage creates a point only in draw mode, on the stage
\* or the background image, for a requested row of the range that no point
\* uses; every other click leaves the point list, the selection, the
\* viewport, the persisted record and the markers as they were.
C16_ClickCreatesOnlyIfValid ==
  [][\A target \in ClickTargets, pos \in ClickPositions :
        (StageClickOn(target, pos, now', TRUE) /\ ~mayCreate(target))
          => UNCHANGED <<points, selectedPointId, scale, offsetX, offsetY,
                         storage, pointShapes>>]_vars

\* The markers that have a point in the store.
markersWithPoint == {id \in DOMAIN pointShapes : findIndex(points, id) # 0}

\* C17 (as amended): after a marker is created and after every change of the
\* scale by wheel, buttons, keys or fitToContent, each marker's circle radius
\* is half of point.size / scale, for its point and the scale of the store.
C17_RadiusIsHalfSizeOverScale ==
  \A id \in markersWithPoint :
     pointShapes[id].radius
       = RDiv(Rat(getPointById(points, id).size), RMul(Rat(2), scale))

\* C17 witness: a marker is shown after the view was zoomed away from scale 1.
C17_MarkerAfterZoom ==
  /\ markersWithPoint # {}
  /\ zooms > 0
  /\ scale # Rat(1)

\* C17 as stated: each marker's circle radius is point.size / scale.
C17_RadiusIsSizeOverScale ==
  \A id \in markersWithPoint :
     pointShapes[id].radius = RDiv(Rat(getPointById(points, id).size), scale)

\* What an import that is refused must leave alone.
importKept ==
  UNCHANGED <<points, selectedPointId, scale, offsetX, offsetY, storage, pointShapes>>

\* C18: an import of a file that is not JSON, or whose JSON value is not an
\* array, changes nothing (point list and ids, selection, viewport, persisted
\* record, markers) and reports an error; an import the user declines to
\* confirm changes nothing either.
C18_RefusedImportKeepsState ==
  [][\A content \in FileContents, confirmed \in BOOLEAN :
        (content.kind # "array" \/ ~confirmed) =>
          \A rnd \in Draws(Len(content.data)) :
             handleJSONImport(content, confirmed, now', rnd, TRUE) =>
               /\ importKept
               /\ content.kind # "array" => toast' = "error"]_vars

\* C18 witness: a point is placed and selected, the view is zoomed, and the
\* last thing reported is an error (of an import: no click is refused here).
C18_ErrorWithPointsKept ==
  /\ Len(points) > 0
  /\ selectedPointId \in idsOf(points)
  /\ zooms > 0
  /\ toast = "error"


\* C19: when an image load fails, its promise rejects (the caller shows the
\* error) and the displayed background image, the image blob of the store,
\* the point list and the viewport stay as they were, whatever was handled
\* between the start of the load and its failure.
C19_FailedLoadKeepsState ==
  [][\A img \in Images :
        ImageFailed(img) =>
          /\ toast' = "error"
          /\ UNCHANGED <<backgroundImage, imageBase64, points, scale, offsetX, offsetY>>]_vars

\* C19 witness: a load has failed after another image was shown, points were
\* placed and the view was zoomed, and all of these are still there.
C19_FailureAfterImageShown ==
  /\ toast = "error"
  /\ backgroundImage # NoImage
  /\ imageBase64 # NoBlob
  /\ Len(points) > 0
  /\ zooms > 0
  /\ \A img \in pending : img.decodes


\* C20: after a successful addPoint, removePoint, clearAllPoints or
\* importPoints whose storage write succeeds, the persisted point array
\* equals the in-memory list in the snapshot every subscriber is given and
\* when the call returns, and loadFromLocal in a fresh session (an empty
\* store) gives back exactly that list.
C20_PersistedBeforeNotify ==
  [][PointMutation(now') =>
       /\ \A l \in listeners :
            /\ Len(seen'[l]) = 1
            /\ seen'[l][1].storage = [present |-> TRUE, pts |-> seen'[l][1].points]
       /\ storage' = [present |-> TRUE, pts |-> points']
       /\ loadFromLocal(storage', <<>>) = points']_vars


C22_DuplicateAddIsNoOp ==
  [][\A r \in RowInputs, ok \in BOOLEAN :
        ((\E i \in DOMAIN points : points[i].rowNum = r) /\ AddPoint(StorePoint(r), ok)) =>
          UNCHANGED <<points, selectedPointId, scale, offsetX, offsetY, storage, seen>>]_vars


\* The ids a removal may be asked for.
removalIds == idsOf(points) \cup DOMAIN pointShapes \cup {AbsentId}

\* What a removal of id leaves in the store.
removalEffect(id) ==
  IF id \notin idsOf(points)
  THEN /\ removedPoint(points, id) = <<>>
       /\ UNCHANGED <<points, selectedPointId, storage, seen>>
  ELSE \E k \in DOMAIN points :
         /\ points[k].id = id
         /\ removedPoint(points, id) = <<points[k]>>
         /\ points' = SubSeq(points, 1, k - 1) \o SubSeq(points, k + 1, Len(points))

\* C23: removePoint(id) for an id no point has returns undefined and leaves
\* the point list, the selection and the persisted record unchanged, calls
\* no subscriber, and the canvas destroys no marker; for the id of a point it
\* removes exactly that point and keeps the others in their order.
C23_RemoveOnlyTheMatch ==
  [][\A id \in removalIds :
        /\ RemovePoint(id, TRUE) => removalEffect(id)
        /\ MarkerContextMenu(id, TRUE) =>
             /\ removalEffect(id)
             /\ id \notin idsOf(points) => UNCHANGED pointShapes]_vars

\* C23 witness: a marker is left whose point was removed through the store,
\* next to a point that is still there and selected.
C23_MarkerWithoutPoint ==
  /\ \E id \in DOMAIN pointShapes : id \notin idsOf(points)
  /\ Len(points) = 1
  /\ selectedPointId \in idsOf(points)
  /\ "probe" \in listeners


\* A zoom gesture: wheel, zoom button or key, fit button or key.
ZoomGesture ==
  \/ \E pos \in WheelPositions, up \in BOOLEAN : Wheel(pos, up)
  \/ \E factor \in ZoomFactors : ZoomButton(factor)
  \/ FitButton

\* The viewport a listener reads in a snapshot, and the viewports of the
\* store before and after a step.
viewOf(snap) == <<snap.scale, snap.offsetX, snap.offsetY>>

\* C24: during a zoom gesture no subscriber is called while the store holds
\* the new scale with the offset of before: every snapshot a listener reads
\* shows either the viewport of before the gesture or the one after it.
C24_NoHalfZoomSeen ==
  [][ZoomGesture =>
       \A l \in listeners : \A i \in DOMAIN seen'[l] :
          viewOf(seen'[l][i]) \in {<<scale, offsetX, offsetY>>, <<scale', offsetX', offsetY'>>}]_vars


\* C25: in every state, each rendered marker's diameter on screen,
\* 2 * radius * scale, is the size of its point, whatever zooms, fits,
\* placements at any scale and re-renders were made.
C25_ScreenDiameterIsSize ==
  \A id \in markersWithPoint :
     RMul(RMul(Rat(2), pointShapes[id].radius), scale)
       = Rat(getPointById(points, id).size)

\* C25 witness: imported points of two sizes were rendered again after the
\* view was zoomed away from scale 1.
C25_RerenderedWhileZoomed ==
  /\ zooms > 0
  /\ scale # Rat(1)
  /\ Len(points) = 2
  /\ \A i \in DOMAIN points : Len(points[i].id) = 3
  /\ points[1].size # points[2].size
  /\ DOMAIN pointShapes = idsOf(points)


\* C26: when the storage write of addPoint, removePoint, clearAllPoints or
\* importPoints fails, the call still returns and the in-memory point list
\* and the persisted record agree after it: both show the mutation or
\* neither does.
C26_FailedWriteKeepsAgreement ==
  [][(PointCall(FALSE) /\ persisted(storage) = points) =>
       persisted(storage') = points']_vars


\* The image-space point a drag holds under the pointer: at pointer-down it
\* is (pos - offset) / scale, which is dragStart / scale, and after a move
\* to pos the offset is pos - dragStart.
dragAnchor(drag, sc) == <<RDiv(drag.dragStartX, sc), RDiv(drag.dragStartY, sc)>>

\* C27: a drag starts only at a left-button pointer-down in pan mode and
\* ends at the next pointer-up or pointer-leave; pointer movement changes
\* the offset only during a drag in pan mode and never the scale; and as
\* long as the same drag goes on, with wheel zooms and mode switches in
\* between, the image-space point that was under the pointer at pointer-down
\* is the one the drag keeps under it.
C27_DragKeepsPointUnderPointer ==
  [][/\ (~dragging.isDragging /\ dragging'.isDragging) =>
          (mode = "pan" /\ \E pos \in DragPositions : MouseDown(pos, 0))
     /\ MouseUp => ~dragging'.isDragging
     /\ \A pos \in DragPositions :
          MouseMove(pos) =>
            /\ scale' = scale
            /\ IF dragging.isDragging /\ mode = "pan"
               THEN /\ mousePointTo(Rat(pos[1]), offsetX', scale') = dragAnchor(dragging, scale)[1]
                    /\ mousePointTo(Rat(pos[2]), offsetY', scale') = dragAnchor(dragging, scale)[2]
               ELSE UNCHANGED <<offsetX, offsetY>>
     /\ (dragging.isDragging /\ dragging' = dragging) =>
          dragAnchor(dragging', scale') = dragAnchor(dragging, scale)]_vars


\* C28: after every handler that changes which rows are in use (placement,
\* removal by right-click, by the list's delete button or by the Delete key,
\* clear-all, import), #nextRow shows getNextAvailableRow() of the new
\* point list.
C28_NextRowShowsFirstFree ==
  [][rowsOf(points') # rowsOf(points) => nextRow' = updateNextRowInput(points')]_vars


\* A layer that has the offset <<x, y>> as its position and sc as its scale.
followsStore(layer, sc, x, y) ==
  layer.x = x /\ layer.y = y /\ layer.scale = sc

\* C29: after every handler the image layer and the points layer have the
\* store's offset as position and the store's scale as scale, and a
\* placement click at the stage position S stores the point at
\* round((S - offset) / scale) of the store's viewport.
C29_LayersFollowStore ==
  [][/\ followsStore(layers'.imageLayer, scale', offsetX', offsetY')
     /\ followsStore(layers'.pointsLayer, scale', offsetX', offsetY')
     /\ \A pos \in LayerClicks :
          (Len(points') > Len(points) /\ StageClick(pos, now', TRUE)) =>
            \A i \in DOMAIN points' :
              points'[i].id \notin idsOf(points) =>
                /\ points'[i].x = RRound(RDiv(RSub(Rat(pos[1]), offsetX), scale))
                /\ points'[i].y = RRound(RDiv(RSub(Rat(pos[2]), offsetY), scale))]_vars

\* A point was placed while the view was zoomed and moved: its stored x is
\* none of the pointer positions.
C29_PlacedInMovedView ==
  /\ scale # Rat(1)
  /\ offsetX # Rat(0)
  /\ followsStore(layers.imageLayer, scale, offsetX, offsetY)
  /\ \E i \in DOMAIN points : points[i].x \notin {pos[1] : pos \in LayerClicks}


\* C30: however the image loads overlap and complete, the image layer holds
\* at most one background image, and each load that succeeds puts its image
\* in the place of the previous one and fits the view to it, and leaves the
\* point list and the selection as they were.
C30_OneBackgroundImage ==
  [][/\ Len(imageChildren') <= 1
     /\ \A img \in pending :
          \A blob \in BOOLEAN :
            ImageLoaded(img, blob) =>
              LET shown == <<img.w, img.h>>
                  sc == fitScale(shown)
              IN  /\ backgroundImage' = shown
                  /\ imageChildren' = <<shown>>
                  /\ scale' = sc
                  /\ offsetX' = fitOffsetX(shown, sc)
                  /\ offsetY' = fitOffsetY(shown, sc)
                  /\ UNCHANGED <<points, selectedPointId>>]_vars

\* An image took the place of another one (whose blob is still the stored
\* one) over placed and selected points, while a further load is under way.
C30_ReplacedWhileLoading ==
  /\ imageChildren = <<backgroundImage>>
  /\ backgroundImage = <<1000, 500>>
  /\ imageBase64 = "plan"
  /\ pending # {}
  /\ Len(points) > 0
  /\ selectedPointId \in idsOf(points)

====
